---- MODULE Spec2Model ----
(***************************************************************************)
(* Link-based continuous-time stochastic cellular automaton                *)
(* (landlab/components/linkca/link_ca.py, class LinkCellularAutomaton).    *)
(*                                                                         *)
(* Arrays are 0-based as in Python: an array of length n is a function on  *)
(* 0..n-1.  Python lists that grow (cell_pair, the event heap) are         *)
(* sequences; element p of the Python list is element p+1 of the sequence. *)
(* Times are counted in units of 1e9, so that _NEVER = 1e12 is 1000.       *)
(***************************************************************************)
EXTENDS Integers, Sequences, FiniteSets, TLC

(***************************************************************************)
(* Bounds of the model.                                                    *)
(***************************************************************************)
\* waiting times drawn from the exponential distribution are 1..MaxDraw
MaxDraw == 2
\* run() is called with run_duration in 0..MaxDuration
MaxDuration == 3
\* the node-state dictionary has 2..MaxNodeStates entries
MaxNodeStates == 2

(***************************************************************************)
(* Program constants.                                                      *)
(***************************************************************************)
NEVER == 1000
CORE_NODE == 0
FIXED_VALUE_BOUNDARY == 1
\* the raster grid of the doctest: RasterModelGrid(3, 4, 1.0)
NumRows == 3
NumCols == 4
\* number of link orientations of the raster lattice: range(2)
NumOrientations == 2
\* value of a local that was never assigned (Python None)
NoXn == 0 - NEVER

Draws == 1..MaxDraw

(***************************************************************************)
(* State of one LinkCellularAutomaton and of a call of run in progress.    *)
(***************************************************************************)
VARIABLES
    node_state,      \* self.node_state: cell state of every node
    link_state,      \* self.link_state: state id of every active link
    next_update,     \* self.next_update: time of the valid event of a link
    event_queue,     \* self.event_queue: heap of Event records
    current_time,    \* self.current_time
    num_node_states, \* self.num_node_states
    num_link_states, \* self.num_link_states
    link_state_dict, \* self.link_state_dict
    cell_pair,       \* self.cell_pair
    n_xn,            \* self.n_xn
    xn_to,           \* self.xn_to
    xn_rate,         \* self.xn_rate
    pc,              \* "new" before __init__, "failed" when it raised,
                     \* "idle", "loop" inside the while loop of run,
                     \* "raised" when run ended with an exception
    run_duration,    \* argument of the call of run in progress
    ev,              \* the event popped last by run
    applied,         \* history: whether ev was processed by do_transition
    applied_before,  \* history: time of the event processed before ev
    supplied,        \* history: the node-state array last passed by the caller
    initial,         \* history: the initial_node_states of the constructor
    args,            \* the arguments of the constructor
    attrs,           \* the attributes __init__ has assigned
    observed,        \* what plotter.update_plot was called with by the last
                     \* do_transition: number of calls, self.current_time
    fields,          \* ModelDataFields._groups: group name -> size of the group
    fields_call,     \* history: the last call on the ModelDataFields, the
                     \* exception it raised and the groups added so far
    sample,          \* history: the last call of get_next_event made on its
                     \* own, its arguments and waiting times and its result
    refreshes,       \* history: the number of update_component_data calls
    caller_array,    \* the array object the caller passed last (as
                     \* initial_node_states, node_state_grid or
                     \* new_node_state_array), as the caller reads it now
    last_call        \* history: the last call of a function outside the
                     \* engine, its argument, the exception it raised and
                     \* the value it returned

(***************************************************************************)
(* The raster grid (landlab.grid.raster.RasterModelGrid): nodes are        *)
(* numbered row by row from the bottom left; the vertical links come       *)
(* first (link k joins node k to node k+NumCols), then the horizontal      *)
(* links row by row.  Perimeter nodes are open boundaries, interior nodes  *)
(* are core nodes; a link is active when one of its ends is a core node.   *)
(***************************************************************************)
number_of_nodes == NumRows * NumCols

Nodes == 0..(number_of_nodes - 1)

number_of_vertical_links == NumCols * (NumRows - 1)

number_of_links == number_of_vertical_links + NumRows * (NumCols - 1)

link_fromnode(k) ==
    IF k < number_of_vertical_links
    THEN k
    ELSE LET h == k - number_of_vertical_links
         IN  (h \div (NumCols - 1)) * NumCols + (h % (NumCols - 1))

link_tonode(k) ==
    IF k < number_of_vertical_links
    THEN k + NumCols
    ELSE link_fromnode(k) + 1

node_status(n) ==
    LET r == n \div NumCols
        c == n % NumCols
    IN  IF r = 0 \/ r = NumRows - 1 \/ c = 0 \/ c = NumCols - 1
        THEN FIXED_VALUE_BOUNDARY
        ELSE CORE_NODE

IsActiveLink(k) ==
    \/ node_status(link_fromnode(k)) = CORE_NODE
    \/ node_status(link_tonode(k)) = CORE_NODE

RECURSIVE ActiveLinksFrom(_)
ActiveLinksFrom(k) ==
    IF k >= number_of_links THEN <<>>
    ELSE IF IsActiveLink(k) THEN <<k>> \o ActiveLinksFrom(k + 1)
    ELSE ActiveLinksFrom(k + 1)

\* grid.active_links: ids of the active links, ascending
active_links == ActiveLinksFrom(0)

number_of_active_links == Len(active_links)

Links == 0..(number_of_active_links - 1)

activelink_fromnode(i) == link_fromnode(active_links[i + 1])

activelink_tonode(i) == link_tonode(active_links[i + 1])

\* the active link whose (from, to) nodes are (a, b), or -1
ActiveLinkBetween(a, b) ==
    IF \E i \in Links : activelink_fromnode(i) = a /\ activelink_tonode(i) = b
    THEN CHOOSE i \in Links : activelink_fromnode(i) = a /\ activelink_tonode(i) = b
    ELSE -1

\* grid.active_node_links()[:, n]: south and west in-links, north and east
\* out-links, -1 where the node has no such active link
node_active_links(n) ==
    << ActiveLinkBetween(n - NumCols, n),
       ActiveLinkBetween(n - 1, n),
       ActiveLinkBetween(n, n + NumCols),
       ActiveLinkBetween(n, n + 1) >>

(***************************************************************************)
(* Python indexing of a list or array held as a sequence: element i, with  *)
(* negative i counted from the end.                                        *)
(***************************************************************************)
InRange(seq, i) == -Len(seq) <= i /\ i < Len(seq)

PyAt(seq, i) == IF i >= 0 THEN seq[i + 1] ELSE seq[Len(seq) + i + 1]

PySet(seq, i, v) ==
    IF i >= 0 THEN [seq EXCEPT ![i + 1] = v]
    ELSE [seq EXCEPT ![Len(seq) + i + 1] = v]

Zeros(n) == [i \in 1..n |-> 0]

RECURSIVE SeqMax(_)
SeqMax(seq) ==
    IF Len(seq) = 0 THEN 0
    ELSE LET m == SeqMax(Tail(seq))
         IN  IF Head(seq) > m THEN Head(seq) ELSE m

(***************************************************************************)
(* Link-state codec: create_link_state_dict_and_pair_list.                 *)
(* The three nested loops fill link_state_dict (triple -> id) and append   *)
(* to cell_pair (id -> triple), with a running counter k.                  *)
(***************************************************************************)
RECURSIVE PairLoop(_, _, _, _, _)
PairLoop(st, n, orientation, fromstate, tostate) ==
    IF orientation >= NumOrientations THEN st
    ELSE IF fromstate >= n THEN PairLoop(st, n, orientation + 1, 0, 0)
    ELSE IF tostate >= n THEN PairLoop(st, n, orientation, fromstate + 1, 0)
    ELSE PairLoop([link_state_dict |->
                       (<<fromstate, tostate, orientation>> :> st.k)
                           @@ st.link_state_dict,
                   cell_pair |->
                       Append(st.cell_pair, <<fromstate, tostate, orientation>>),
                   k |-> st.k + 1],
                  n, orientation, fromstate, tostate + 1)

\* a codec whose cell_pair entries hold (to, from, orientation)
create_link_state_dict_and_pair_list_swapped(n) ==
    [link_state_dict |->
         [tr \in (0..(n - 1)) \X (0..(n - 1)) \X (0..(NumOrientations - 1)) |->
              tr[3] * n * n + tr[1] * n + tr[2]],
     cell_pair |->
         [i \in 1..(NumOrientations * n * n) |->
              << (i - 1) % n, ((i - 1) \div n) % n, (i - 1) \div (n * n) >>],
     k |-> NumOrientations * n * n]

\* a codec whose loops run over the to state before the from state
create_link_state_dict_and_pair_list_to_major(n) ==
    [link_state_dict |->
         [tr \in (0..(n - 1)) \X (0..(n - 1)) \X (0..(NumOrientations - 1)) |->
              tr[3] * n * n + tr[2] * n + tr[1]],
     cell_pair |->
         [i \in 1..(NumOrientations * n * n) |->
              << (i - 1) % n, ((i - 1) \div n) % n, (i - 1) \div (n * n) >>],
     k |-> NumOrientations * n * n]

create_link_state_dict_and_pair_list(n) ==
    PairLoop([link_state_dict |-> <<>>, cell_pair |-> <<>>, k |-> 0], n, 0, 0, 0)

\* num_link_states as computed by the constructor
NumLinkStates(n) == 2 * n * n

(***************************************************************************)
(* Transition table: setup_transition_data.  xn_list holds Transition      *)
(* records whose from_state and to_state are link-state ids.               *)
(***************************************************************************)
RECURSIVE CountTransitions(_, _)
CountTransitions(counts, xn_list) ==
    IF Len(xn_list) = 0 THEN counts
    ELSE LET xn == Head(xn_list)
         IN  CountTransitions(
                 PySet(counts, xn.from_state, PyAt(counts, xn.from_state) + 1),
                 Tail(xn_list))

RECURSIVE PopulateTransitions(_, _)
PopulateTransitions(tb, xn_list) ==
    IF Len(xn_list) = 0 THEN tb
    ELSE LET xn == Head(xn_list)
             from_state == xn.from_state
             slot == PyAt(tb.n_xn, from_state)
         IN  PopulateTransitions(
                 [n_xn |-> PySet(tb.n_xn, from_state, slot + 1),
                  xn_to |-> PySet(tb.xn_to, from_state,
                                  PySet(PyAt(tb.xn_to, from_state), slot, xn.to_state)),
                  xn_rate |-> PySet(tb.xn_rate, from_state,
                                    PySet(PyAt(tb.xn_rate, from_state), slot, xn.rate))],
                 Tail(xn_list))

setup_transition_data(nstates, xn_list) ==
    LET counts == CountTransitions(Zeros(nstates), xn_list)
        max_transitions == SeqMax(counts)
    IN  PopulateTransitions(
            [n_xn |-> Zeros(nstates),
             xn_to |-> [s \in 1..nstates |-> Zeros(max_transitions)],
             xn_rate |-> [s \in 1..nstates |-> Zeros(max_transitions)]],
            xn_list)

(***************************************************************************)
(* Event heap: heapq.heappush and heapq.heappop on a list of Event         *)
(* records [time, link, xn_to], ordered by Event.__lt__.                   *)
(***************************************************************************)
\* events compared by their link ids
EventLt_by_link(e1, e2) == e1.link < e2.link

EventLt(e1, e2) == e1.time < e2.time

RECURSIVE SiftDown(_, _, _, _)
SiftDown(heap, startpos, pos, newitem) ==
    IF pos > startpos
    THEN LET parentpos == (pos - 1) \div 2
             parent == PyAt(heap, parentpos)
         IN  IF EventLt(newitem, parent)
             THEN SiftDown(PySet(heap, pos, parent), startpos, parentpos, newitem)
             ELSE PySet(heap, pos, newitem)
    ELSE PySet(heap, pos, newitem)

RECURSIVE SiftUpLoop(_, _, _)
SiftUpLoop(heap, pos, newitem) ==
    LET endpos == Len(heap)
        childpos == 2 * pos + 1
        rightpos == childpos + 1
        pick == IF rightpos < endpos
                   /\ ~EventLt(PyAt(heap, childpos), PyAt(heap, rightpos))
                THEN rightpos ELSE childpos
    IN  IF childpos < endpos
        THEN SiftUpLoop(PySet(heap, pos, PyAt(heap, pick)), pick, newitem)
        ELSE SiftDown(heap, 0, pos, newitem)

heappush(heap, item) ==
    LET appended == Append(heap, item)
    IN  SiftDown(appended, 0, Len(appended) - 1, item)

\* [item, heap]: the event returned by heappop and the heap it leaves
\* heappop taking the last entry of the list, not the smallest
heappop_last(heap) ==
    [item |-> heap[Len(heap)], heap |-> SubSeq(heap, 1, Len(heap) - 1)]

heappop(heap) ==
    LET lastelt == heap[Len(heap)]
        rest == SubSeq(heap, 1, Len(heap) - 1)
    IN  IF Len(rest) > 0
        THEN [item |-> rest[1], heap |-> SiftUpLoop(rest, 0, lastelt)]
        ELSE [item |-> lastelt, heap |-> rest]

(***************************************************************************)
(* Engine operations.  st is the mutable part of the engine,               *)
(*   [node_state, link_state, next_update, event_queue, rng, error,        *)
(*    plots],                                                              *)
(* where rng is the stream of waiting times numpy.random.exponential will  *)
(* return next, error tells that the operation has raised an exception,    *)
(* and plots counts the calls of plotter.update_plot; tb holds the tables  *)
(* built by the constructor,                                               *)
(*   [link_state_dict, cell_pair, n_xn, xn_to, xn_rate].                   *)
(***************************************************************************)
active_link_orientation(act_link_id) ==
    IF active_links[act_link_id + 1] < number_of_vertical_links THEN 1 ELSE 0

\* the pair of a link's end states is a key of link_state_dict (the lookup
\* raises KeyError otherwise)
PairKnown(tb, states, link) ==
    <<states[activelink_fromnode(link)], states[activelink_tonode(link)],
      active_link_orientation(link)>> \in DOMAIN tb.link_state_dict

\* numpy.random.exponential raises ValueError when its scale is negative
DrawRaises(tb, current_state) ==
    \E i \in 0..(PyAt(tb.n_xn, current_state) - 1) :
        PyAt(PyAt(tb.xn_rate, current_state), i) < 0

\* the link state of the node pair at the ends of a link
NodePairState(tb, states, link) ==
    tb.link_state_dict[<<states[activelink_fromnode(link)],
                         states[activelink_tonode(link)],
                         active_link_orientation(link)>>]

assign_link_states_from_node_types(tb, states) ==
    [i \in Links |-> NodePairState(tb, states, i)]

\* the loop over the competing transitions of get_next_event
RECURSIVE NextEventLoop(_, _, _, _, _, _)
NextEventLoop(tb, current_state, draws, i, next_time, xn) ==
    IF i >= PyAt(tb.n_xn, current_state) THEN [next_time |-> next_time, xn |-> xn]
    ELSE LET this_next == draws[i + 1]
         IN  IF this_next < next_time
             THEN NextEventLoop(tb, current_state, draws, i + 1, this_next,
                                PyAt(PyAt(tb.xn_to, current_state), i))
             ELSE NextEventLoop(tb, current_state, draws, i + 1, next_time, xn)

\* get_next_event without the current time added to the waiting time
get_next_event_relative(tb, link, current_state, time, draws) ==
    LET r == IF PyAt(tb.n_xn, current_state) = 1
             THEN [next_time |-> draws[1],
                   xn |-> PyAt(PyAt(tb.xn_to, current_state), 0)]
             ELSE NextEventLoop(tb, current_state, draws, 0, NEVER, NoXn)
    IN  [time |-> r.next_time, link |-> link, xn_to |-> r.xn]

\* draws: the waiting times drawn for this call, one per transition
get_next_event(tb, link, current_state, time, draws) ==
    LET r == IF PyAt(tb.n_xn, current_state) = 1
             THEN [next_time |-> draws[1],
                   xn |-> PyAt(PyAt(tb.xn_to, current_state), 0)]
             ELSE NextEventLoop(tb, current_state, draws, 0, NEVER, NoXn)
    IN  [time |-> r.next_time + time, link |-> link, xn_to |-> r.xn]

\* the state with the first n waiting times of the stream consumed
Consume(st, n) == [st EXCEPT !.rng = SubSeq(st.rng, n + 1, Len(st.rng))]

RECURSIVE PushLoop(_, _, _)
PushLoop(tb, st, i) ==
    IF i >= number_of_active_links \/ st.error THEN st
    ELSE LET n == PyAt(tb.n_xn, st.link_state[i])
         IN  IF n > 0
             THEN IF DrawRaises(tb, st.link_state[i])
                  THEN [st EXCEPT !.error = TRUE]
                  ELSE LET event == get_next_event(tb, i, st.link_state[i], 0,
                                                   SubSeq(st.rng, 1, n))
                       IN  PushLoop(tb,
                               [Consume(st, n) EXCEPT
                                   !.event_queue = heappush(st.event_queue, event),
                                   !.next_update[i] = event.time],
                               i + 1)
             ELSE PushLoop(tb, [st EXCEPT !.next_update[i] = NEVER], i + 1)

\* push_transitions_to_event_queue with the loop starting at the second link
push_transitions_to_event_queue_from_1(tb, st) == PushLoop(tb, st, 1)

push_transitions_to_event_queue(tb, st) == PushLoop(tb, st, 0)

\* update_node_states without the test of the node status
update_node_states_any_status(tb, st, fromnode, tonode, new_link_state) ==
    LET old_fromnode_state == st.node_state[fromnode]
        old_tonode_state == st.node_state[tonode]
        ns1 == [st.node_state EXCEPT
                   ![fromnode] = PyAt(tb.cell_pair, new_link_state)[1]]
        ns2 == [ns1 EXCEPT ![tonode] = PyAt(tb.cell_pair, new_link_state)[2]]
    IN  [st |-> [st EXCEPT !.node_state = ns2],
         from_changed |-> ns2[fromnode] # old_fromnode_state,
         to_changed |-> ns2[tonode] # old_tonode_state]

\* [st, from_changed, to_changed]
update_node_states(tb, st, fromnode, tonode, new_link_state) ==
    LET old_fromnode_state == st.node_state[fromnode]
        old_tonode_state == st.node_state[tonode]
        ns1 == IF node_status(fromnode) = CORE_NODE
               THEN [st.node_state EXCEPT
                        ![fromnode] = PyAt(tb.cell_pair, new_link_state)[1]]
               ELSE st.node_state
        ns2 == IF node_status(tonode) = CORE_NODE
               THEN [ns1 EXCEPT ![tonode] = PyAt(tb.cell_pair, new_link_state)[2]]
               ELSE ns1
    IN  [st |-> [st EXCEPT !.node_state = ns2],
         from_changed |-> ns2[fromnode] # old_fromnode_state,
         to_changed |-> ns2[tonode] # old_tonode_state]

\* update_link_state without the else branch that stores _NEVER
update_link_state_no_sentinel(tb, st, link, new_link_state, time) ==
    LET fn == activelink_fromnode(link)
        tn == activelink_tonode(link)
        boundary == node_status(fn) # CORE_NODE \/ node_status(tn) # CORE_NODE
    IN  IF boundary /\ ~PairKnown(tb, st.node_state, link)
        THEN [st EXCEPT !.error = TRUE]
        ELSE LET actual == IF boundary
                           THEN NodePairState(tb, st.node_state, link)
                           ELSE new_link_state
                 n == PyAt(tb.n_xn, actual)
             IN  IF n > 0
                 THEN IF DrawRaises(tb, actual)
                      THEN [st EXCEPT !.link_state[link] = actual,
                                      !.error = TRUE]
                      ELSE LET event == get_next_event(tb, link, actual, time,
                                                       SubSeq(st.rng, 1, n))
                           IN  [Consume(st, n) EXCEPT
                                   !.link_state[link] = actual,
                                   !.event_queue = heappush(st.event_queue, event),
                                   !.next_update[link] = event.time]
                 ELSE [st EXCEPT !.link_state[link] = actual]

update_link_state(tb, st, link, new_link_state, time) ==
    LET fn == activelink_fromnode(link)
        tn == activelink_tonode(link)
        boundary == node_status(fn) # CORE_NODE \/ node_status(tn) # CORE_NODE
    IN  IF boundary /\ ~PairKnown(tb, st.node_state, link)
        THEN [st EXCEPT !.error = TRUE]
        ELSE LET actual == IF boundary
                           THEN NodePairState(tb, st.node_state, link)
                           ELSE new_link_state
                 n == PyAt(tb.n_xn, actual)
             IN  IF n > 0
                 THEN IF DrawRaises(tb, actual)
                      THEN [st EXCEPT !.link_state[link] = actual,
                                      !.error = TRUE]
                      ELSE LET event == get_next_event(tb, link, actual, time,
                                                       SubSeq(st.rng, 1, n))
                           IN  [Consume(st, n) EXCEPT
                                   !.link_state[link] = actual,
                                   !.event_queue = heappush(st.event_queue, event),
                                   !.next_update[link] = event.time]
                 ELSE [st EXCEPT !.link_state[link] = actual,
                                   !.next_update[link] = NEVER]

\* the loop over the links of a node whose state has changed
RECURSIVE CascadeLoop(_, _, _, _, _)
CascadeLoop(tb, st, links, event, i) ==
    IF i > Len(links) \/ st.error THEN st
    ELSE LET link == links[i]
         IN  IF link # -1 /\ link # event.link
             THEN IF ~PairKnown(tb, st.node_state, link)
                  THEN [st EXCEPT !.error = TRUE]
                  ELSE CascadeLoop(tb,
                           update_link_state(tb, st, link,
                               NodePairState(tb, st.node_state, link), event.time),
                           links, event, i + 1)
             ELSE CascadeLoop(tb, st, links, event, i + 1)

\* do_transition without the comparison of the event time with next_update
do_transition_unchecked(tb, st, event) ==
    LET fromnode == activelink_fromnode(event.link)
        tonode == activelink_tonode(event.link)
        u == update_node_states(tb, st, fromnode, tonode, event.xn_to)
        st1 == update_link_state(tb, u.st, event.link, event.xn_to, event.time)
        st2 == IF u.from_changed
               THEN CascadeLoop(tb, st1, node_active_links(fromnode), event, 1)
               ELSE st1
        st3 == IF u.to_changed
               THEN CascadeLoop(tb, st2, node_active_links(tonode), event, 1)
               ELSE st2
    IN  IF st3.error THEN st3 ELSE [st3 EXCEPT !.plots = @ + 1]

\* do_transition with the cascade run at both ends whether or not the state
\* of the node has changed
do_transition_cascade_always(tb, st, event) ==
    IF event.time = st.next_update[event.link]
    THEN LET fromnode == activelink_fromnode(event.link)
             tonode == activelink_tonode(event.link)
             u == update_node_states(tb, st, fromnode, tonode, event.xn_to)
             st1 == update_link_state(tb, u.st, event.link, event.xn_to, event.time)
             st2 == CascadeLoop(tb, st1, node_active_links(fromnode), event, 1)
             st3 == CascadeLoop(tb, st2, node_active_links(tonode), event, 1)
         IN  IF st3.error THEN st3 ELSE [st3 EXCEPT !.plots = @ + 1]
    ELSE st

do_transition(tb, st, event) ==
    IF event.time = st.next_update[event.link]
    THEN LET fromnode == activelink_fromnode(event.link)
             tonode == activelink_tonode(event.link)
             u == update_node_states(tb, st, fromnode, tonode, event.xn_to)
             st1 == update_link_state(tb, u.st, event.link, event.xn_to, event.time)
             st2 == IF u.from_changed
                    THEN CascadeLoop(tb, st1, node_active_links(fromnode), event, 1)
                    ELSE st1
             st3 == IF u.to_changed
                    THEN CascadeLoop(tb, st2, node_active_links(tonode), event, 1)
                    ELSE st2
         IN  IF st3.error THEN st3 ELSE [st3 EXCEPT !.plots = @ + 1]
    ELSE st

(***************************************************************************)
(* Constructor inputs.  A Transition is [from_state, to_state, rate]; a    *)
(* link state given as an integer id k is written <<k>> and one given as   *)
(* a tuple is written <<from, to, orientation>>, so that type(x) == tuple  *)
(* is Len(x) = 3.                                                          *)
(***************************************************************************)
IsTuple(x) == Len(x) = 3

Transition(from_state, to_state, rate) ==
    [from_state |-> from_state, to_state |-> to_state, rate |-> rate]

\* the assertions on one transition with the form of to_state left unchecked
CheckTransition_from_only(t, n, last_type) ==
    LET this_type ==
            IF /\ ~IsTuple(t.from_state) /\ t.from_state[1] < NumLinkStates(n)
               /\ IsTuple(t.to_state) \/ t.to_state[1] < NumLinkStates(n)
            THEN "int"
            ELSE IF /\ IsTuple(t.from_state)
                    /\ \A i \in 1..2 : t.from_state[i] < n
                    /\ t.from_state[3] < 2
            THEN "tuple"
            ELSE "fail"
    IN  IF this_type # "fail" /\ (last_type = this_type \/ last_type = "none")
        THEN this_type ELSE "fail"

\* the assertions of __init__ on one transition, given the type of the
\* previous one ("none" for the first); the type of this one, or "fail"
CheckTransition(t, n, last_type) ==
    LET this_type ==
            IF /\ ~IsTuple(t.from_state) /\ t.from_state[1] < NumLinkStates(n)
               /\ ~IsTuple(t.to_state) /\ t.to_state[1] < NumLinkStates(n)
            THEN "int"
            ELSE IF /\ IsTuple(t.from_state) /\ IsTuple(t.to_state)
                    /\ \A i \in 1..2 : t.from_state[i] < n /\ t.to_state[i] < n
                    /\ t.from_state[3] < 2 /\ t.to_state[3] < 2
            THEN "tuple"
            ELSE "fail"
    IN  IF this_type # "fail" /\ (last_type = this_type \/ last_type = "none")
        THEN this_type ELSE "fail"

RECURSIVE CheckTransitions(_, _, _)
CheckTransitions(transition_list, n, last_type) ==
    IF Len(transition_list) = 0 THEN last_type
    ELSE LET this_type == CheckTransition(Head(transition_list), n, last_type)
         IN  IF this_type = "fail" THEN "fail"
             ELSE CheckTransitions(Tail(transition_list), n, this_type)

\* transition_list_as_ID: tuples replaced by their ids
TransitionListAsID(tb, transition_list) ==
    IF IsTuple(transition_list[1].from_state)
    THEN [i \in 1..Len(transition_list) |->
             Transition(tb.link_state_dict[transition_list[i].from_state],
                        tb.link_state_dict[transition_list[i].to_state],
                        transition_list[i].rate)]
    ELSE [i \in 1..Len(transition_list) |->
             Transition(transition_list[i].from_state[1],
                        transition_list[i].to_state[1],
                        transition_list[i].rate)]

\* the tuples of a transition list are keys of link_state_dict
TuplesKnown(tb, transition_list) ==
    \A i \in 1..Len(transition_list) :
        IsTuple(transition_list[i].from_state) =>
            /\ transition_list[i].from_state \in DOMAIN tb.link_state_dict
            /\ transition_list[i].to_state \in DOMAIN tb.link_state_dict

\* an array given row by row, as a function on the node ids
NodeArray(rows) == [n \in Nodes |-> rows[n + 1]]

NodeStateCounts == 2..MaxNodeStates

\* the transition lists tried: the weathering rules of setup_transition_list,
\* a horizontal motion with a vertical rule (as tuples), two competing rules,
\* and a rule whose target has another orientation than its source
TransitionLists ==
    { << Transition(<<1>>, <<3>>, 1), Transition(<<2>>, <<3>>, 1) >>,
      << Transition(<<0, 1, 0>>, <<1, 0, 0>>, 10),
         Transition(<<0, 1, 1>>, <<1, 1, 1>>, 1) >>,
      << Transition(<<1>>, <<3>>, 1), Transition(<<1>>, <<2>>, 10) >>,
      << Transition(<<1>>, <<7>>, 1) >> }

\* the node-state arrays tried, for the constructor and for run
NodeStateArrays ==
    { NodeArray(<<0, 0, 0, 0,   0, 0, 1, 1,   0, 0, 0, 0>>),
      NodeArray(<<0, 1, 0, 0,   1, 0, 1, 0,   0, 0, 1, 0>>) }

\* run(run_duration) without a node_state_grid
NoGrid == <<>>

\* further transition lists tried on the constructor: the empty list, lists
\* that mix ids and tuples (between rules, in either order, and inside one
\* rule), ids and tuple components outside the codec, and a negative rate
OtherTransitionLists ==
    { << >>,
      << Transition(<<1>>, <<3>>, 1), Transition(<<0, 1, 0>>, <<1, 0, 0>>, 1) >>,
      << Transition(<<0, 1, 0>>, <<1, 0, 0>>, 1), Transition(<<1>>, <<3>>, 1) >>,
      << Transition(<<1>>, <<1, 1, 0>>, 1) >>,
      << Transition(<<1>>, <<99>>, 1) >>,
      << Transition(<<-1>>, <<3>>, 1) >>,
      << Transition(<<0, 5, 0>>, <<1, 0, 0>>, 1) >>,
      << Transition(<<0, 1, 2>>, <<1, 0, 0>>, 1) >>,
      << Transition(<<0, -1, 0>>, <<1, 0, 0>>, 1) >>,
      << Transition(<<1>>, <<3>>, 1), Transition(<<3>>, <<2>>, -1) >> }

\* a rule list with a cycle: a horizontal pair (0,1) and its mirror image
\* turn into each other for ever
CyclicTransitionLists ==
    { << Transition(<<1>>, <<2>>, 1), Transition(<<2>>, <<1>>, 1) >> }

\* the single rule (0,1,horizontal) -> (1,1,horizontal)
SingleRule == << Transition(<<0, 1, 0>>, <<1, 1, 0>>, 1) >>

\* a node-state array with one entry more than the grid has nodes
OtherNodeStateArrays == { [n \in 0..number_of_nodes |-> 0] }

tables == <<num_node_states, num_link_states, link_state_dict, cell_pair,
            n_xn, xn_to, xn_rate>>

vars == <<node_state, link_state, next_update, event_queue, current_time,
          tables, pc, run_duration, ev, applied, applied_before, supplied,
          initial, args, attrs, observed, fields, fields_call, sample,
          refreshes, caller_array, last_call>>

\* the variables of the automaton and of its run
engine_vars == <<node_state, link_state, next_update, event_queue, current_time,
                 tables, pc, run_duration, ev, applied, applied_before,
                 supplied, initial, args, attrs, observed, refreshes,
                 caller_array>>

Tables ==
    [link_state_dict |-> link_state_dict, cell_pair |-> cell_pair,
     n_xn |-> n_xn, xn_to |-> xn_to, xn_rate |-> xn_rate]

Engine(rng) ==
    [node_state |-> node_state, link_state |-> link_state,
     next_update |-> next_update, event_queue |-> event_queue, rng |-> rng,
     error |-> FALSE, plots |-> 0]

\* a stream long enough for one call of push_transitions_to_event_queue or
\* do_transition, and the number of waiting times a call draws from it
LongStream(tb) == [i \in 1..(number_of_active_links * SeqMax(tb.n_xn)) |-> 1]

Drawn(tb, after) == Len(LongStream(tb)) - Len(after.rng)

NoEvent == [time |-> 0, link |-> -1, xn_to |-> NoXn]

\* the attributes of the engine in the order __init__ assigns them
AttrOrder ==
    << "node_state", "current_time", "num_node_states", "num_link_states",
       "event_queue", "next_update", "link_state_dict", "cell_pair",
       "link_state", "n_xn", "xn_to", "xn_rate" >>

AllAttrs == { AttrOrder[i] : i \in 1..Len(AttrOrder) }

\* no call of plotter.update_plot yet
NotObserved == [calls |-> 0, clock |-> 0]

\* ModelDataFields(): no group; no call made on it yet
NoGroups == <<>>

NoCall == [op |-> "none", group |-> "", raised |-> "none", added |-> {}]

\* no function outside the engine called yet
NoFunction == [op |-> "none", input |-> <<>>, raised |-> "none", value |-> 0]

\* get_next_event not called on its own yet
NoSample == [link |-> -1, current_state |-> 0, time |-> 0, draws |-> <<>>,
             event |-> NoEvent]

(***************************************************************************)
(* __init__                                                                *)
(***************************************************************************)
\* the assertions and dictionary lookups of the constructor succeed
ConstructorAccepts(n, transition_list, initial_node_states) ==
    LET codec == create_link_state_dict_and_pair_list(n)
    IN  /\ Len(transition_list) > 0
        /\ CheckTransitions(transition_list, n, "none") # "fail"
        /\ TuplesKnown(codec, transition_list)
        /\ \A i \in Links :
               /\ initial_node_states[activelink_fromnode(i)] < n
               /\ initial_node_states[activelink_tonode(i)] < n

\* the tables the constructor builds
ConstructTables(n, transition_list) ==
    LET codec == create_link_state_dict_and_pair_list(n)
        xn_list == TransitionListAsID(codec, transition_list)
        data == setup_transition_data(NumLinkStates(n), xn_list)
    IN  [link_state_dict |-> codec.link_state_dict,
         cell_pair |-> codec.cell_pair,
         n_xn |-> data.n_xn, xn_to |-> data.xn_to, xn_rate |-> data.xn_rate]

\* the engine after the constructor, before any waiting time is drawn
ConstructEngine(tb, initial_node_states, rng) ==
    [node_state |-> initial_node_states,
     link_state |-> assign_link_states_from_node_types(tb, initial_node_states),
     next_update |-> [i \in Links |-> 0],
     event_queue |-> <<>>,
     rng |-> rng,
     error |-> FALSE,
     plots |-> 0]

\* the engines the constructor can return, one for each outcome of the
\* waiting times drawn by push_transitions_to_event_queue
Constructed(tb, initial_node_states) ==
    LET k == Drawn(tb, push_transitions_to_event_queue(
                           tb, ConstructEngine(tb, initial_node_states,
                                               LongStream(tb))))
    IN  { push_transitions_to_event_queue(
              tb, ConstructEngine(tb, initial_node_states, stream)) :
          stream \in [1..k -> Draws] }

Init ==
    \E n \in NodeStateCounts, transition_list \in TransitionLists,
       initial_node_states \in NodeStateArrays :
        /\ ConstructorAccepts(n, transition_list, initial_node_states)
        /\ \E st \in Constructed(ConstructTables(n, transition_list),
                                 initial_node_states) :
               /\ node_state = st.node_state
               /\ link_state = st.link_state
               /\ next_update = st.next_update
               /\ event_queue = st.event_queue
               /\ current_time = 0
               /\ num_node_states = n
               /\ num_link_states = NumLinkStates(n)
               /\ link_state_dict = ConstructTables(n, transition_list).link_state_dict
               /\ cell_pair = ConstructTables(n, transition_list).cell_pair
               /\ n_xn = ConstructTables(n, transition_list).n_xn
               /\ xn_to = ConstructTables(n, transition_list).xn_to
               /\ xn_rate = ConstructTables(n, transition_list).xn_rate
               /\ pc = "idle"
               /\ run_duration = 0
               /\ ev = NoEvent
               /\ applied = FALSE
               /\ applied_before = 0
               /\ supplied = initial_node_states
               /\ initial = initial_node_states
               /\ args = [n |-> n, transition_list |-> transition_list,
                          initial_node_states |-> initial_node_states]
               /\ attrs = AllAttrs
               /\ observed = NotObserved
               /\ fields = NoGroups
               /\ fields_call = NoCall
               /\ sample = NoSample
               /\ refreshes = 0
               /\ caller_array = initial_node_states
               /\ last_call = NoFunction

\* __init__ with the length of the array tested after the link states were
\* assigned (step 6)
FailureStage_length_last(n, transition_list, initial_node_states) ==
    LET codec == create_link_state_dict_and_pair_list(n)
    IN  IF \/ Len(transition_list) = 0
           \/ CheckTransitions(transition_list, n, "none") = "fail" THEN 2
        ELSE IF ~TuplesKnown(codec, transition_list) THEN 3
        ELSE IF \E i \in Links : ~PairKnown(codec, initial_node_states, i) THEN 4
        ELSE IF Cardinality(DOMAIN initial_node_states) # number_of_nodes THEN 6
        ELSE IF \E i \in 1..Len(transition_list) :
                    ~InRange(Zeros(NumLinkStates(n)),
                             TransitionListAsID(codec, transition_list)[i].from_state)
             THEN 5
        ELSE 0

\* the step of __init__ that raises an exception, 0 when none does before
\* push_transitions_to_event_queue: 1 the length assertion of
\* set_node_state_grid, 2 the assertions on the transition list, 3 the lookup
\* of a tuple in link_state_dict, 4 the lookup of a node pair in
\* assign_link_states_from_node_types, 5 an index outside n_xn in
\* setup_transition_data
FailureStage(n, transition_list, initial_node_states) ==
    LET codec == create_link_state_dict_and_pair_list(n)
    IN  IF Cardinality(DOMAIN initial_node_states) # number_of_nodes THEN 1
        ELSE IF \/ Len(transition_list) = 0
                \/ CheckTransitions(transition_list, n, "none") = "fail" THEN 2
        ELSE IF ~TuplesKnown(codec, transition_list) THEN 3
        ELSE IF \E i \in Links : ~PairKnown(codec, initial_node_states, i) THEN 4
        ELSE IF \E i \in 1..Len(transition_list) :
                    ~InRange(Zeros(NumLinkStates(n)),
                             TransitionListAsID(codec, transition_list)[i].from_state)
             THEN 5
        ELSE 0

\* the attributes assigned before the step of that number raises
AttrsBefore(stage) ==
    { AttrOrder[i] : i \in 1..(CASE stage = 1 -> 0
                                 [] stage = 2 -> 4
                                 [] stage = 3 -> 8
                                 [] OTHER -> 9) }

\* before the constructor is called with its arguments
InitNew ==
    \E n \in NodeStateCounts,
       transition_list \in TransitionLists \cup OtherTransitionLists
                               \cup CyclicTransitionLists \cup {SingleRule},
       initial_node_states \in NodeStateArrays \cup OtherNodeStateArrays :
        /\ args = [n |-> n, transition_list |-> transition_list,
                   initial_node_states |-> initial_node_states]
        /\ attrs = {}
        /\ pc = "new"
        /\ node_state = <<>>
        /\ link_state = <<>>
        /\ next_update = <<>>
        /\ event_queue = <<>>
        /\ current_time = 0
        /\ num_node_states = 0
        /\ num_link_states = 0
        /\ link_state_dict = <<>>
        /\ cell_pair = <<>>
        /\ n_xn = <<>>
        /\ xn_to = <<>>
        /\ xn_rate = <<>>
        /\ run_duration = 0
        /\ ev = NoEvent
        /\ applied = FALSE
        /\ applied_before = 0
        /\ supplied = <<>>
        /\ initial = <<>>
        /\ observed = NotObserved
        /\ fields = NoGroups
        /\ fields_call = NoCall
        /\ sample = NoSample
        /\ refreshes = 0
        /\ caller_array = <<>>
        /\ last_call = NoFunction

\* __init__ raises: no engine is returned
ConstructFails(assigned) ==
    /\ pc' = "failed"
    /\ attrs' = assigned
    /\ UNCHANGED <<node_state, link_state, next_update, event_queue,
                   current_time, tables, run_duration, ev, applied,
                   applied_before, supplied, initial, args, observed,
                   fields, fields_call,
                   sample, refreshes, caller_array, last_call>>

\* __init__ called with the arguments args
Construct ==
    /\ pc = "new"
    /\ LET n == args.n
           transition_list == args.transition_list
           initial_node_states == args.initial_node_states
           stage == FailureStage(n, transition_list, initial_node_states)
       IN  IF stage # 0
           THEN ConstructFails(AttrsBefore(stage))
           ELSE \E st \in Constructed(ConstructTables(n, transition_list),
                                      initial_node_states) :
                    IF st.error
                    THEN ConstructFails(AllAttrs)
                    ELSE /\ node_state' = st.node_state
                         /\ link_state' = st.link_state
                         /\ next_update' = st.next_update
                         /\ event_queue' = st.event_queue
                         /\ current_time' = 0
                         /\ num_node_states' = n
                         /\ num_link_states' = NumLinkStates(n)
                         /\ link_state_dict' =
                                ConstructTables(n, transition_list).link_state_dict
                         /\ cell_pair' = ConstructTables(n, transition_list).cell_pair
                         /\ n_xn' = ConstructTables(n, transition_list).n_xn
                         /\ xn_to' = ConstructTables(n, transition_list).xn_to
                         /\ xn_rate' = ConstructTables(n, transition_list).xn_rate
                         /\ pc' = "idle"
                         /\ supplied' = initial_node_states
                         /\ initial' = initial_node_states
                         /\ caller_array' = initial_node_states
                         /\ attrs' = AllAttrs
                         /\ UNCHANGED <<run_duration, ev, applied, applied_before,
                                        args, observed, fields,
                                        fields_call, sample, refreshes,
                                        last_call>>

(***************************************************************************)
(* run(run_duration, node_state_grid)                                      *)
(***************************************************************************)
\* set_node_state_grid binds self.node_state to the array passed, without a
\* copy: the engine's array and the caller's array are one object
set_node_state_grid(node_states) ==
    [node_state |-> node_states, same_object |-> TRUE]

\* the caller's array as the engine's writes leave it: the engine's array
\* when the two are one object
CallerReads(states) ==
    IF set_node_state_grid(caller_array).same_object THEN states
    ELSE caller_array

\* entry of run: set_node_state_grid when a grid is passed
RunCall(duration, node_state_grid) ==
    /\ pc = "idle"
    /\ pc' = "loop"
    /\ run_duration' = duration
    /\ IF node_state_grid # NoGrid
       THEN /\ node_state' = set_node_state_grid(node_state_grid).node_state
            /\ supplied' = node_state_grid
            /\ caller_array' = node_state_grid
       ELSE UNCHANGED <<node_state, supplied, caller_array>>
    /\ UNCHANGED <<link_state, next_update, event_queue, current_time, tables,
                   ev, applied, applied_before, initial, args, attrs,
                   observed, fields, fields_call,
                   sample, refreshes, last_call>>

\* the engines do_transition can leave, one for each outcome of the waiting
\* times it draws
Transitioned(tb, st, event) ==
    LET k == Drawn(tb, do_transition(tb, [st EXCEPT !.rng = LongStream(tb)], event))
    IN  { do_transition(tb, [st EXCEPT !.rng = stream], event) :
          stream \in [1..k -> Draws] }

\* one iteration of the while loop: heappop, do_transition, clock update; an
\* exception raised in do_transition ends run before the clock update
RunIteration ==
    /\ pc = "loop"
    /\ current_time < run_duration /\ Len(event_queue) > 0
    /\ \E st \in Transitioned(Tables,
                   [Engine(<<>>) EXCEPT !.event_queue = heappop(event_queue).heap],
                   heappop(event_queue).item) :
           /\ node_state' = st.node_state
           /\ link_state' = st.link_state
           /\ next_update' = st.next_update
           /\ event_queue' = st.event_queue
           /\ observed' = [calls |-> st.plots, clock |-> current_time]
           /\ caller_array' = CallerReads(st.node_state)
           /\ IF st.error
              THEN pc' = "raised" /\ current_time' = current_time
              ELSE pc' = pc /\ current_time' = heappop(event_queue).item.time
    /\ ev' = heappop(event_queue).item
    /\ applied' = (heappop(event_queue).item.time
                       = next_update[heappop(event_queue).item.link])
    /\ applied_before' = IF applied THEN ev.time ELSE applied_before
    /\ UNCHANGED <<tables, run_duration, supplied, initial, args, attrs,
                   fields, fields_call,
                   sample, refreshes, last_call>>

\* run returning with the clock moved to run_duration
RunReturn_at_horizon ==
    /\ pc = "loop"
    /\ ~(current_time < run_duration /\ Len(event_queue) > 0)
    /\ pc' = "idle"
    /\ current_time' = run_duration
    /\ UNCHANGED <<node_state, link_state, next_update, event_queue,
                   tables, run_duration, ev, applied,
                   applied_before, supplied, initial, args, attrs, observed,
                   fields, fields_call,
                   sample, refreshes, caller_array, last_call>>

\* run returning from inside the loop whatever the loop condition
RunReturn_unconditional ==
    /\ pc = "loop"
    /\ pc' = "idle"
    /\ UNCHANGED <<node_state, link_state, next_update, event_queue,
                   current_time, tables, run_duration, ev, applied,
                   applied_before, supplied, initial, args, attrs, observed,
                   fields, fields_call,
                   sample, refreshes, caller_array, last_call>>

\* the loop condition is false: run returns
RunReturn ==
    /\ pc = "loop"
    /\ ~(current_time < run_duration /\ Len(event_queue) > 0)
    /\ pc' = "idle"
    /\ UNCHANGED <<node_state, link_state, next_update, event_queue,
                   current_time, tables, run_duration, ev, applied,
                   applied_before, supplied, initial, args, attrs, observed,
                   fields, fields_call,
                   sample, refreshes, caller_array, last_call>>

Next ==
    \/ \E duration \in 0..MaxDuration, grid \in NodeStateArrays \cup {NoGrid} :
           RunCall(duration, grid)
    \/ RunIteration
    \/ RunReturn

Spec == Init /\ [][Next]_vars

\* every run is called with its run_duration alone, node_state_grid = None
NextNoGrid ==
    \/ \E duration \in 0..MaxDuration : RunCall(duration, NoGrid)
    \/ RunIteration
    \/ RunReturn

SpecNoGrid == Init /\ [][NextNoGrid]_vars

\* the constructor called with arguments it may reject, then runs without
\* node_state_grid
NextConstructor ==
    \/ Construct
    \/ \E duration \in 0..MaxDuration : RunCall(duration, NoGrid)
    \/ RunIteration
    \/ RunReturn

SpecConstructor == InitNew /\ [][NextConstructor]_vars

(***************************************************************************)
(* get_next_event called on its own on a constructed automaton, with any   *)
(* waiting times the exponential distribution can give: those of the run   *)
(* and waiting times of _NEVER and more.                                    *)
(***************************************************************************)
SampleDraws == Draws \cup {NEVER, NEVER + 1}

GetNextEvent(link, current_state, time, draws) ==
    /\ pc = "idle"
    /\ PyAt(n_xn, current_state) > 0
    /\ sample' = [link |-> link, current_state |-> current_state,
                  time |-> time, draws |-> draws,
                  event |-> get_next_event(Tables, link, current_state, time,
                                           draws)]
    /\ UNCHANGED <<engine_vars, fields, fields_call, last_call>>

NextSampling ==
    \E link \in Links, current_state \in 0..(num_link_states - 1),
       time \in 0..MaxDuration :
        \E draws \in [1..PyAt(n_xn, current_state) -> SampleDraws] :
            GetNextEvent(link, current_state, time, draws)

SpecSampling == Init /\ [][NextSampling]_vars

(***************************************************************************)
(* landlab.field.grouped.ModelDataFields: the registry of field groups, as *)
(* landlab/field/tests/test_grouped_fields.py uses it.                      *)
(***************************************************************************)
\* the names and sizes the tests add groups with
GroupNames == {"node", "cell", "face", "link"}

GroupSizes == {2, 7, 12, 24}

\* the classes an exception of a class is an instance of
ExceptionClasses(raised) ==
    CASE raised = "GroupError" -> {"GroupError", "KeyError"}
      [] raised = "ValueError" -> {"ValueError"}
      [] OTHER -> {}

\* ModelDataFields.groups: the set of the names of the groups
groups(f) == DOMAIN f

\* ModelDataFields.has_group
has_group(f, group) == group \in DOMAIN f

\* new_field_location replacing a group that exists before it raises
new_field_location_replacing(group, size) ==
    /\ fields' = [name \in DOMAIN fields \cup {group} |->
                      IF name = group THEN size ELSE fields[name]]
    /\ fields_call' =
           [op |-> "new_field_location", group |-> group,
            raised |-> IF has_group(fields, group) THEN "ValueError" ELSE "none",
            added |-> IF has_group(fields, group) THEN fields_call.added
                      ELSE fields_call.added \cup {group}]
    /\ UNCHANGED <<engine_vars, sample, last_call>>

\* ModelDataFields.new_field_location(group, size): ValueError when the
\* group exists, else the group is added
new_field_location(group, size) ==
    /\ IF has_group(fields, group)
       THEN /\ fields' = fields
            /\ fields_call' = [op |-> "new_field_location", group |-> group,
                               raised |-> "ValueError",
                               added |-> fields_call.added]
       ELSE /\ fields' = [name \in DOMAIN fields \cup {group} |->
                              IF name = group THEN size ELSE fields[name]]
            /\ fields_call' = [op |-> "new_field_location", group |-> group,
                               raised |-> "none",
                               added |-> fields_call.added \cup {group}]
    /\ UNCHANGED <<engine_vars, sample, last_call>>

\* ModelDataFields.__getitem__(group): GroupError when there is no such group
getitem(group) ==
    /\ fields_call' = [op |-> "getitem", group |-> group,
                       raised |-> IF has_group(fields, group) THEN "none"
                                  ELSE "GroupError",
                       added |-> fields_call.added]
    /\ UNCHANGED fields
    /\ UNCHANGED <<engine_vars, sample, last_call>>

\* a ModelDataFields on its own, no automaton constructed
InitFields ==
    /\ InitNew
    /\ args.n = 2
    /\ args.transition_list = << Transition(<<1>>, <<7>>, 1) >>
    /\ args.initial_node_states \in OtherNodeStateArrays

NextFields ==
    \/ \E group \in GroupNames, size \in GroupSizes :
           new_field_location(group, size)
    \/ \E group \in GroupNames : getitem(group)

SpecFields == InitFields /\ [][NextFields]_vars

(***************************************************************************)
(* Properties.                                                             *)
(***************************************************************************)
\* encode: lookup in link_state_dict; decode: lookup in cell_pair
Encode(f, t, o) == link_state_dict[<<f, t, o>>]

Decode(k) == PyAt(cell_pair, k)

CellStates == 0..(num_node_states - 1)

Orientations == 0..(NumOrientations - 1)

\* positions of the heap that hold the valid event of link l
LiveEntries(l) ==
    { p \in 1..Len(event_queue) :
          event_queue[p].link = l /\ event_queue[p].time = next_update[l] }

\* the event the next loop iteration of run pops, when there is one
Popping == pc = "loop" /\ current_time < run_duration /\ Len(event_queue) > 0

NextEvent == heappop(event_queue).item

IsStale(event) == event.time # next_update[event.link]

\* C1: after construction and after every call of run, the state of every
\* active link is the code of (state of its from node, state of its to node,
\* its orientation).
C1_LinkCellConsistency ==
    pc = "idle" =>
        \A l \in Links :
            link_state[l] = Encode(node_state[activelink_fromnode(l)],
                                   node_state[activelink_tonode(l)],
                                   active_link_orientation(l))

\* C2: the heap never holds two entries of one link whose time equals the
\* link's next_update.
C2_SingleLiveEvent == \A l \in Links : Cardinality(LiveEntries(l)) <= 1

C4_TimeOrder ==
    [][/\ current_time' >= current_time
       /\ applied' => applied_before' <= ev'.time]_vars

\* two events were applied, the second at a later time than the first
C4_Witness == applied /\ applied_before > 0 /\ ev.time > applied_before

\* C5: a link whose state has no outgoing transition has next_update = _NEVER.
C5_DeadLinkSentinel ==
    \A l \in Links : PyAt(n_xn, link_state[l]) = 0 => next_update[l] = NEVER

\* an applied event has left its own link in a state with no transition
C5_Witness ==
    /\ applied
    /\ PyAt(n_xn, link_state[ev.link]) = 0
    /\ next_update[ev.link] = NEVER

\* C6: a loop iteration that pops a stale event changes no node state, no
\* link state and no next_update, and leaves the heap as heappop left it.
C6_StaleNoEffect ==
    [][(Popping /\ IsStale(NextEvent)) =>
           /\ node_state' = node_state
           /\ link_state' = link_state
           /\ next_update' = next_update
           /\ event_queue' = heappop(event_queue).heap]_vars

\* the event popped last was stale
C6_Witness == ev.link # -1 /\ ~applied

\* C7: decode(encode(f, t, o)) = (f, t, o) for every triple of the domain and
\* encode(decode(k)) = k for every id below num_link_states.
C7_CodecRoundTrip ==
    /\ \A f \in CellStates, t \in CellStates, o \in Orientations :
           /\ <<f, t, o>> \in DOMAIN link_state_dict
           /\ Encode(f, t, o) \in 0..(Len(cell_pair) - 1)
           /\ Decode(Encode(f, t, o)) = <<f, t, o>>
    /\ \A k \in 0..(num_link_states - 1) :
           /\ k < Len(cell_pair)
           /\ Decode(k) \in DOMAIN link_state_dict
           /\ link_state_dict[Decode(k)] = k

\* the codec was built, and an id of the second orientation whose two cell
\* states differ goes through decode and encode unchanged
C7_Witness ==
    \E k \in 0..(num_link_states - 1) :
        /\ k < Len(cell_pair)
        /\ Decode(k)[1] # Decode(k)[2]
        /\ Decode(k)[3] = 1
        /\ Encode(Decode(k)[1], Decode(k)[2], Decode(k)[3]) = k

\* C8: there are N_orient * N_cell^2 link states and the id of (from, to,
\* orientation) is orientation * N_cell^2 + from * N_cell + to.
C8_CanonicalEnumeration ==
    /\ num_link_states = NumOrientations * num_node_states * num_node_states
    /\ Len(cell_pair) = num_link_states
    /\ DOMAIN link_state_dict = CellStates \X CellStates \X Orientations
    /\ \A f \in CellStates, t \in CellStates, o \in Orientations :
           Encode(f, t, o) = o * num_node_states * num_node_states
                                 + f * num_node_states + t

\* a link lies in a state of the second orientation block
C8_Witness ==
    \E l \in Links :
        /\ active_link_orientation(l) = 1
        /\ link_state[l] = Encode(node_state[activelink_fromnode(l)],
                                  node_state[activelink_tonode(l)], 1)
        /\ link_state[l] > num_node_states * num_node_states

\* C10: run applies no event whose time is at or after run_duration.
C10_HorizonNotCrossed ==
    [][(pc = "loop" /\ pc' = "loop" /\ applied') => ev'.time < run_duration]_vars

\* C11: the clock changes only to the time of an event that was applied;
\* popping an event that is discarded as stale leaves current_time unchanged.
C11_ClockOnlyApplied ==
    [][current_time' # current_time =>
           applied' /\ current_time' = ev'.time]_vars

\* C12: while current_time < run_duration and the heap is not empty, run pops
\* the next event and sets the clock to its time; it returns only when
\* current_time >= run_duration or the heap is empty.
C12_ExitCondition ==
    [][/\ (pc = "loop" /\ pc' = "loop") =>
              /\ Popping
              /\ ev' = NextEvent
              /\ current_time' = NextEvent.time
       /\ (pc = "loop" /\ pc' = "idle") =>
              /\ current_time >= run_duration \/ Len(event_queue) = 0
              /\ current_time' = current_time
              /\ event_queue' = event_queue]_vars

\* run has returned after applying an event, with events left on the heap
C12_Witness ==
    /\ pc = "idle"
    /\ applied
    /\ current_time >= run_duration
    /\ Len(event_queue) > 0

\* a rule list holds ids and tuples: in two rules, or inside one rule
MixedForms(transition_list) ==
    \E i \in 1..Len(transition_list) :
        \/ IsTuple(transition_list[i].from_state)
               # IsTuple(transition_list[i].to_state)
        \/ \E j \in 1..Len(transition_list) :
               IsTuple(transition_list[i].from_state)
                   # IsTuple(transition_list[j].from_state)

\* C13: the constructor returns no engine when the transition list is empty
\* or mixes id-form and tuple-form states.
C13_ShapeValidated ==
    (Len(args.transition_list) = 0 \/ MixedForms(args.transition_list)) =>
        pc \in {"new", "failed"}

\* the constructor, given an array of the right length, has raised on a rule
\* that mixes the two forms
C13_Witness ==
    /\ pc = "failed"
    /\ "node_state" \in attrs
    /\ \E i \in 1..Len(args.transition_list) :
           IsTuple(args.transition_list[i].from_state)
               # IsTuple(args.transition_list[i].to_state)

\* a link state given in a rule lies in the domain of the codec
StateInDomain(x, n) ==
    IF IsTuple(x)
    THEN /\ x[1] \in 0..(n - 1)
         /\ x[2] \in 0..(n - 1)
         /\ x[3] \in 0..(NumOrientations - 1)
    ELSE x[1] \in 0..(NumLinkStates(n) - 1)

\* C14: the constructor returns no engine when a rule's from_state or
\* to_state is outside the domain: an id not in [0, N_link), or a tuple with
\* a component out of range.
C14_RangeValidated ==
    (\E i \in 1..Len(args.transition_list) :
         \/ ~StateInDomain(args.transition_list[i].from_state, args.n)
         \/ ~StateInDomain(args.transition_list[i].to_state, args.n)) =>
        pc \in {"new", "failed"}

\* C15: the constructor returns no engine when a rule has rate <= 0, so every
\* rate stored in the transition table of an engine is strictly positive.
C15_RatesPositive ==
    /\ (\E i \in 1..Len(args.transition_list) :
            args.transition_list[i].rate <= 0) => pc \in {"new", "failed"}
    /\ pc \notin {"new", "failed"} =>
           \A k \in 0..(num_link_states - 1) :
               \A i \in 0..(PyAt(n_xn, k) - 1) : PyAt(PyAt(xn_rate, k), i) > 0

\* C16: the constructor fails when the length of initial_node_states differs
\* from the number of nodes, before link_state, next_update or event_queue
\* is created.
C16_LengthValidated ==
    (pc # "new"
         /\ Cardinality(DOMAIN args.initial_node_states) # number_of_nodes) =>
        /\ pc = "failed"
        /\ attrs \cap {"link_state", "next_update", "event_queue"} = {}

\* the constructor has raised on an array of 13 entries given with a rule
\* list that it accepts with other arrays
C16_Witness ==
    /\ pc = "failed"
    /\ Cardinality(DOMAIN args.initial_node_states) = number_of_nodes + 1
    /\ args.transition_list \in TransitionLists
    /\ attrs = {}

\* C17: once the constructor has returned an engine, no call of run raises an
\* exception (no lookup in link_state_dict misses its key, no waiting time
\* is drawn for a state without a usable transition).
C17_NoRuntimeFailure == pc # "raised"

C19_ObserverCallback ==
    [][(pc = "loop" /\ pc' = "loop") =>
           /\ observed'.calls = (IF applied' THEN 1 ELSE 0)
           /\ applied' => observed'.clock = ev'.time]_vars

\* C20: e1 < e2 exactly when e1.time < e2.time, whatever the links and
\* targets, and the event heappop returns has a time at most that of every
\* event it leaves on the heap.
C20_EventOrdering ==
    /\ \A p, q \in 1..Len(event_queue) :
           EventLt(event_queue[p], event_queue[q])
               <=> event_queue[p].time < event_queue[q].time
    /\ Len(event_queue) > 0 =>
           \A p \in 1..Len(heappop(event_queue).heap) :
               heappop(event_queue).item.time
                   <= heappop(event_queue).heap[p].time

\* the loop is about to pop from a heap on which the earlier of two events
\* belongs to the link of the larger id
C20_Witness ==
    /\ Popping
    /\ \E p, q \in 1..Len(event_queue) :
           /\ event_queue[p].time < event_queue[q].time
           /\ event_queue[p].link > event_queue[q].link

\* C21: the groups of a ModelDataFields are exactly the names added with
\* success and has_group is true exactly of them; new_field_location with a
\* name that is present raises ValueError and leaves the groups as they
\* were; looking up a group never added raises GroupError, a KeyError
C21_GroupRegistry ==
    [][ /\ groups(fields') = fields_call'.added
        /\ \A name \in GroupNames :
               has_group(fields', name) <=> name \in fields_call'.added
        /\ ( /\ fields_call'.op = "new_field_location"
             /\ fields_call'.group \in fields_call.added )
           => /\ "ValueError" \in ExceptionClasses(fields_call'.raised)
              /\ fields' = fields
        /\ ( /\ fields_call'.op = "getitem"
             /\ fields_call'.group \notin fields_call.added )
           => {"GroupError", "KeyError"}
                  \subseteq ExceptionClasses(fields_call'.raised) ]_vars

\* a second group of size 12 was added, then added once more: ValueError
C21_Witness ==
    /\ fields_call.op = "new_field_location"
    /\ fields_call.raised = "ValueError"
    /\ Cardinality(groups(fields)) = 2
    /\ fields[fields_call.group] = 12

\* the positions of the heap holding an event of link l
EntriesOf(heap, l) == { p \in 1..Len(heap) : heap[p].link = l }

\* C22: right after construction current_time is 0 and every active link
\* whose state has an outgoing transition has exactly one event on the heap,
\* with next_update equal to its time; every other link has no event on the
\* heap and next_update equal to the sentinel
C22_InitialScheduling ==
    [][ (pc = "new" /\ pc' = "idle")
        => /\ current_time' = 0
           /\ \A l \in Links :
                  IF PyAt(n_xn', link_state'[l]) > 0
                  THEN /\ Cardinality(EntriesOf(event_queue', l)) = 1
                       /\ \A p \in EntriesOf(event_queue', l) :
                              next_update'[l] = event_queue'[p].time
                  ELSE /\ EntriesOf(event_queue', l) = {}
                       /\ next_update'[l] = NEVER ]_vars

\* a constructed automaton, no run yet, with scheduled links and dead links
C22_Witness ==
    /\ pc = "idle" /\ ev = NoEvent /\ run_duration = 0
    /\ \E l \in Links : PyAt(n_xn, link_state[l]) > 0 /\ next_update[l] < NEVER
    /\ \E l \in Links : PyAt(n_xn, link_state[l]) = 0 /\ next_update[l] = NEVER

\* the smallest of the waiting times drawn
MinDraw(draws) ==
    CHOOSE m \in { draws[i] : i \in 1..Len(draws) } :
        \A i \in 1..Len(draws) : m <= draws[i]

\* C23: get_next_event returns an event of the link, at the current time plus
\* the smallest waiting time drawn, whose target is xn_to[s][i] of a slot i
\* that drew the smallest waiting time; with one transition the loop gives
\* what the fast path gives; the target is never None
C23_NextEventSampling ==
    sample.link # -1
    => LET s == sample.current_state
           n == PyAt(n_xn, s)
       IN  /\ sample.event.link = sample.link
           /\ sample.event.time = sample.time + MinDraw(sample.draws)
           /\ \E i \in 0..(n - 1) :
                  /\ sample.draws[i + 1] = MinDraw(sample.draws)
                  /\ sample.event.xn_to = PyAt(PyAt(xn_to, s), i)
           /\ n = 1 => NextEventLoop(Tables, s, sample.draws, 0, NEVER, NoXn)
                           = [next_time |-> sample.event.time - sample.time,
                              xn |-> sample.event.xn_to]
           /\ sample.event.xn_to # NoXn

\* the number of copies of an event on a heap
EventCount(heap, e) == Cardinality({ p \in 1..Len(heap) : heap[p] = e })

\* the events of a link on one of two heaps
EventsOf(heap1, heap2, l) ==
    { heap1[p] : p \in EntriesOf(heap1, l) }
        \cup { heap2[p] : p \in EntriesOf(heap2, l) }

\* the second heap holds the events of link l of the first heap and one
\* event more, e
OnePushed(heap1, heap2, l, e) ==
    \A e2 \in EventsOf(heap1, heap2, l) \cup {e} :
        EventCount(heap2, e2)
            = EventCount(heap1, e2) + (IF e2 = e THEN 1 ELSE 0)

\* a link with an end that is not a core node
AtBoundary(l) ==
    \/ node_status(activelink_fromnode(l)) # CORE_NODE
    \/ node_status(activelink_tonode(l)) # CORE_NODE

\* C24: applying an event of link l with target x leaves link_state[l] the
\* code of the present states of the ends of l and its orientation when an
\* end of l is not a core node, and x otherwise; when that state has a
\* transition exactly one event of l is pushed, at a time not before the
\* applied event, and next_update[l] is its time; otherwise no event of l is
\* pushed and next_update[l] is the sentinel
C24_OwnLinkRescheduled ==
    [][(Popping /\ ~IsStale(NextEvent)) =>
           LET l == NextEvent.link
               popped == heappop(event_queue).heap
           IN  /\ link_state'[l] =
                      IF AtBoundary(l)
                      THEN Encode(node_state'[activelink_fromnode(l)],
                                  node_state'[activelink_tonode(l)],
                                  active_link_orientation(l))
                      ELSE NextEvent.xn_to
               /\ IF PyAt(n_xn, link_state'[l]) > 0
                  THEN /\ next_update'[l] >= NextEvent.time
                       /\ \E p \in EntriesOf(event_queue', l) :
                              /\ event_queue'[p].time = next_update'[l]
                              /\ OnePushed(popped, event_queue', l,
                                           event_queue'[p])
                  ELSE /\ next_update'[l] = NEVER
                       /\ \A e \in EventsOf(popped, event_queue', l) :
                              EventCount(event_queue', e) = EventCount(popped, e)
          ]_vars

\* the active links other than l that end at a node whose state the step
\* has changed
CascadeLinks(l) ==
    { k \in Links \ {l} :
          \E n \in {activelink_fromnode(l), activelink_tonode(l)} :
              /\ node_state'[n] # node_state[n]
              /\ n \in {activelink_fromnode(k), activelink_tonode(k)} }

\* link k was rescheduled by the step: its state is the code of the present
\* states of its ends, and one fresh event was pushed for it with
\* next_update its time, or next_update is the sentinel
Rescheduled(k, popped) ==
    /\ link_state'[k] = Encode(node_state'[activelink_fromnode(k)],
                               node_state'[activelink_tonode(k)],
                               active_link_orientation(k))
    /\ IF PyAt(n_xn, link_state'[k]) > 0
       THEN \E p \in EntriesOf(event_queue', k) :
                /\ event_queue'[p].time = next_update'[k]
                /\ OnePushed(popped, event_queue', k, event_queue'[p])
       ELSE next_update'[k] = NEVER

\* C25: when an applied event changes the state of a cell at an end of its
\* link, every other active link at that cell is rescheduled, and every event
\* that was queued for such a link before is stale afterwards
C25_NeighbourCascade ==
    [][(Popping /\ ~IsStale(NextEvent)) =>
           LET popped == heappop(event_queue).heap
           IN  \A k \in CascadeLinks(NextEvent.link) :
                   /\ Rescheduled(k, popped)
                   /\ \A p \in EntriesOf(popped, k) :
                          popped[p].time # next_update'[k]
          ]_vars

\* the two end nodes of an active link
Ends(l) == {activelink_fromnode(l), activelink_tonode(l)}

\* the entries of the row of node n in the table of incident links
Row(n) == { node_active_links(n)[i] : i \in 1..Len(node_active_links(n)) }

\* the loop of the cascade run over the row of node n for an event leaves
\* the records of every link that is not in the row, and of the event's
\* link, as they are
RowOnly(n, event) ==
    \E r \in { CascadeLoop(Tables, Engine(LongStream(Tables)),
                           node_active_links(n), event, 1) } :
        \A k \in Links :
            (k = event.link \/ k \notin Row(n)) =>
                /\ r.link_state[k] = link_state[k]
                /\ r.next_update[k] = next_update[k]

\* C26: applying one event changes node_state at most at the two ends of the
\* event's link, and link_state and next_update only of the event's link and
\* of the active links at an end whose state has changed; the -1 entries of
\* the table of incident links are skipped: the loop over the row of an end
\* of the event's link touches the record of no link outside the row
C26_TransitionFrame ==
    /\ [][(Popping /\ ~IsStale(NextEvent)) =>
              LET l == NextEvent.link
              IN  /\ \A n \in Nodes :
                         node_state'[n] # node_state[n] => n \in Ends(l)
                  /\ \A k \in Links :
                         (\/ link_state'[k] # link_state[k]
                          \/ next_update'[k] # next_update[k])
                             => (k = l \/ k \in CascadeLinks(l))
         ]_vars
    /\ []((Popping /\ ~IsStale(NextEvent)) =>
              \A n \in Ends(NextEvent.link) : RowOnly(n, NextEvent))

\* an event was applied to a link with an end at the boundary, whose row
\* holds -1; the core end is not in the state supplied, a link at the core
\* end was scheduled anew and a link at neither end keeps the sentinel
C26_Witness ==
    /\ applied
    /\ \E n \in Ends(ev.link) : -1 \in Row(n)
    /\ \E n \in Ends(ev.link) :
           /\ node_state[n] # supplied[n]
           /\ \E k \in Links \ {ev.link} :
                  /\ n \in Ends(k)
                  /\ next_update[k] > ev.time /\ next_update[k] < NEVER
           /\ \E k \in Links : n \notin Ends(k) /\ next_update[k] = NEVER

\* C27: the target of every applied event decodes to the orientation of the
\* event's link, for every rule list the constructor accepts
C27_OrientationPreserved ==
    applied => Decode(ev.xn_to)[3] = active_link_orientation(ev.link)

\* the rules of the constructor's list, as ids, whose from_state is s, in
\* the order of the list
RulesFrom(s) ==
    LET FromS(t) == t.from_state = s
    IN  SelectSeq(TransitionListAsID(Tables, args.transition_list), FromS)

\* C28: for every link state s, n_xn[s] is the number of rules whose
\* from_state is s, and slot k of xn_to[s] and xn_rate[s] holds the target and
\* the rate of the k-th such rule in the order of the list
C28_TransitionTables ==
    pc \in {"idle", "loop", "raised"} =>
        \A s \in 0..(num_link_states - 1) :
            /\ PyAt(n_xn, s) = Len(RulesFrom(s))
            /\ \A k \in 0..(PyAt(n_xn, s) - 1) :
                   /\ PyAt(PyAt(xn_to, s), k) = RulesFrom(s)[k + 1].to_state
                   /\ PyAt(PyAt(xn_rate, s), k) = RulesFrom(s)[k + 1].rate

\* weak fairness of the loop iteration, WF_vars(RunIteration), with
\* ENABLED <<RunIteration>>_vars written as the loop condition: an iteration
\* changes the heap, so it is enabled exactly when the condition holds
IterationFair == []<>(~Popping) \/ []<><<RunIteration>>_vars

\* the constructor and runs with the loop of run executed to its end: an
\* iteration that can be taken is taken, and run returns when its loop
\* condition is false
SpecTermination ==
    /\ InitNew
    /\ [][NextConstructor]_vars
    /\ IterationFair
    /\ WF_vars(RunReturn)

\* C29: every call of run ends: the loop is left, by a return with
\* current_time >= run_duration or an empty heap, or by an exception; also
\* with rules that form a cycle and with links at the boundary that are
\* scheduled again after each of their events
C29_RunTerminates ==
    (pc = "loop") ~>
        \/ pc = "raised"
        \/ /\ pc = "idle"
           /\ current_time >= run_duration \/ Len(event_queue) = 0

\* a run has returned at its horizon with events left on the heap, after an
\* event of a link that is scheduled again was applied
C29_Witness ==
    /\ pc = "idle"
    /\ applied
    /\ applied_before > 0
    /\ current_time >= run_duration /\ run_duration > 0
    /\ Len(event_queue) > 0
    /\ next_update[ev.link] < NEVER

\* C30: when run returns no link is left with a next_update below the
\* horizon of the call, and next_update of a link changes only when the
\* event of the link at that time is applied or when the event of a
\* neighbouring link reschedules it in its cascade: an event scheduled
\* before the horizon is applied, or superseded by a neighbour, before run
\* returns.  With the single rule (0,1,h) -> (1,1,h) and a horizon beyond
\* every first waiting time, every horizontal link between core cells that
\* started in (0,1) is in (1,1) when run returns
C30_ScheduledEventsHappen ==
    [][/\ pc # "new" =>
              \A l \in Links :
                  next_update'[l] # next_update[l] =>
                      /\ Popping /\ ~IsStale(NextEvent)
                      /\ \/ NextEvent.link = l /\ NextEvent.time = next_update[l]
                         \/ l \in CascadeLinks(NextEvent.link)
       /\ (pc = "loop" /\ pc' = "idle") =>
              /\ \A l \in Links : next_update'[l] >= run_duration
              /\ (args.transition_list = SingleRule /\ run_duration > MaxDraw)
                 => \A l \in Links :
                        ( /\ ~AtBoundary(l)
                          /\ active_link_orientation(l) = 0
                          /\ initial[activelink_fromnode(l)] = 0
                          /\ initial[activelink_tonode(l)] = 1 )
                        => link_state'[l] = Encode(1, 1, 0)
      ]_vars

\* run has returned from a horizon beyond every first waiting time, with the
\* single rule and a horizontal link of core cells that started in (0,1):
\* the event of the link was applied
C30_Witness ==
    /\ pc = "idle"
    /\ args.transition_list = SingleRule
    /\ run_duration > MaxDraw
    /\ applied
    /\ ~AtBoundary(ev.link)
    /\ active_link_orientation(ev.link) = 0
    /\ initial[activelink_fromnode(ev.link)] = 0
    /\ initial[activelink_tonode(ev.link)] = 1
    /\ link_state[ev.link] = Encode(1, 1, 0)

\* C31: after construction and between the events of a run, every active
\* link whose next_update is not the sentinel has an entry on the heap with
\* that time; when the heap is empty every next_update is the sentinel
C31_NoOrphanedLink ==
    pc \in {"idle", "loop", "raised"} =>
        /\ \A l \in Links : next_update[l] # NEVER => LiveEntries(l) # {}
        /\ Len(event_queue) = 0 => \A l \in Links : next_update[l] = NEVER

\* the targets of the transitions out of link state s
Targets(s) ==
    { PyAt(PyAt(xn_to, s), k) : k \in 0..(PyAt(n_xn, s) - 1) }

\* C32: the target of every event that do_transition applies is one of the
\* targets of the transitions out of the state its link is in: the event was
\* drawn for the present state of the link, and an event queued before the
\* link was last rescheduled is not applied
C32_AppliedEventMatchesState ==
    [][(Popping /\ ~IsStale(NextEvent)) =>
           NextEvent.xn_to \in Targets(link_state[NextEvent.link])]_vars

\* the while loop of run as a function of the engine, the clock and the
\* random stream: the engine and the clock it leaves, and the events it
\* applied, in order
RECURSIVE RunLoop(_, _, _, _, _)
RunLoop(tb, st, clock, duration, events) ==
    IF st.error \/ ~(clock < duration /\ Len(st.event_queue) > 0)
    THEN [st |-> st, current_time |-> clock, events |-> events]
    ELSE LET popped == heappop(st.event_queue)
             after == do_transition(tb, [st EXCEPT !.event_queue = popped.heap],
                                    popped.item)
         IN  IF after.error
             THEN [st |-> after, current_time |-> clock, events |-> events]
             ELSE RunLoop(tb, after, popped.item.time, duration,
                          IF popped.item.time = st.next_update[popped.item.link]
                          THEN Append(events, popped.item) ELSE events)

\* run whose run_duration counts from the present clock
run_relative(tb, e, duration) ==
    RunLoop(tb, e.st, e.current_time, e.current_time + duration, e.events)

\* run(duration) with node_state_grid = None, on the outcome e of the calls
\* made before it
run(tb, e, duration) ==
    RunLoop(tb, e.st, e.current_time, duration, e.events)

\* the length of the random streams of a chunked run
StreamLen == 60

\* the streams in which two waiting times alternate
Streams ==
    { [i \in 1..StreamLen |-> IF i % 2 = 1 THEN a ELSE b] :
      a \in Draws, b \in Draws }

\* the engine as it is now, about to draw from stream, nothing applied yet
Outcome(stream) ==
    [st |-> Engine(stream), current_time |-> current_time, events |-> <<>>]

\* C33: with the same random draws, run(T1) followed by run(T2), T1 <= T2,
\* leaves the clock, the cell states, the link states, next_update and the
\* heap that a single run(T2) leaves, and applies the same events in the
\* same order
C33_ChunkedRunsCompose ==
    pc = "idle" =>
        \A stream \in Streams :
            \A T2 \in 0..MaxDuration :
                \E single \in { run(Tables, Outcome(stream), T2) } :
                    \A T1 \in 0..T2 :
                        run(Tables, run(Tables, Outcome(stream), T1), T2) = single

\* an engine for which a run to time 1 and a run to the longest duration
\* apply different numbers of events: the second run of a chunked run has
\* events left to apply
C33_Witness ==
    /\ pc = "idle"
    /\ \E stream \in Streams :
           /\ Len(run(Tables, Outcome(stream), 1).events) > 0
           /\ Len(run(Tables, Outcome(stream), MaxDuration).events)
                  > Len(run(Tables, Outcome(stream), 1).events)

(***************************************************************************)
(* update_component_data(new_node_state_array, nodes_added,                *)
(*                       translation_vector)                               *)
(***************************************************************************)
\* the number of update_component_data calls made on one engine
MaxRefreshes == 1

\* the link lists the method derives from nodes_added and translation_vector:
\* no link moved and the links of the bottom row refreshed, or the first two
\* horizontal links moved one link to the right and the first one refreshed
Translations ==
    { [old_links |-> <<>>, new_links |-> <<>>, links_refreshed |-> {0, 1}],
      [old_links |-> <<4, 5>>, new_links |-> <<5, 6>>, links_refreshed |-> {4}] }

\* link_conversion_dict[link], or the link itself on KeyError
ConvertedLink(tr, link) ==
    IF \E k \in 1..Len(tr.old_links) : tr.old_links[k] = link
    THEN tr.new_links[CHOOSE k \in 1..Len(tr.old_links) : tr.old_links[k] = link]
    ELSE link

\* next_update[new_links] = next_update[old_links], then
\* next_update[links_refreshed] = 0
TranslatedUpdates(tr, updates) ==
    [l \in Links |->
        IF l \in tr.links_refreshed THEN 0
        ELSE IF \E k \in 1..Len(tr.new_links) : tr.new_links[k] = l
        THEN updates[tr.old_links[CHOOSE k \in 1..Len(tr.new_links) :
                                      tr.new_links[k] = l]]
        ELSE updates[l]]

update_component_data(tb, st, new_node_state_array, tr) ==
    LET pushed == push_transitions_to_event_queue(tb,
                      [st EXCEPT
                          !.node_state =
                              set_node_state_grid(new_node_state_array).node_state,
                          !.link_state = assign_link_states_from_node_types(
                                             tb, new_node_state_array)])
    IN  IF pushed.error THEN pushed
        ELSE [pushed EXCEPT
                 !.next_update = TranslatedUpdates(tr, pushed.next_update),
                 !.event_queue = [p \in 1..Len(pushed.event_queue) |->
                                     [pushed.event_queue[p] EXCEPT
                                         !.link = ConvertedLink(tr, @)]]]

\* one call of update_component_data between two runs, for each outcome of
\* the waiting times it draws
UpdateComponentData(new_node_state_array, tr) ==
    /\ pc = "idle"
    /\ refreshes < MaxRefreshes
    /\ \E k \in { Drawn(Tables, update_component_data(
                      Tables, Engine(LongStream(Tables)),
                      new_node_state_array, tr)) } :
       \E stream \in [1..k -> Draws] :
       \E st \in { update_component_data(Tables, Engine(stream),
                                         new_node_state_array, tr) } :
           /\ node_state' = st.node_state
           /\ link_state' = st.link_state
           /\ next_update' = st.next_update
           /\ event_queue' = st.event_queue
           /\ pc' = IF st.error THEN "raised" ELSE pc
    /\ supplied' = new_node_state_array
    /\ caller_array' = new_node_state_array
    /\ refreshes' = refreshes + 1
    /\ UNCHANGED <<current_time, tables, run_duration, ev, applied,
                   applied_before, initial, args, attrs, observed, fields,
                   fields_call, sample, last_call>>

NextRefresh ==
    \/ \E duration \in 0..MaxDuration : RunCall(duration, NoGrid)
    \/ RunIteration
    \/ RunReturn
    \/ \E new_node_state_array \in NodeStateArrays, tr \in Translations :
           UpdateComponentData(new_node_state_array, tr)

SpecRefresh == Init /\ [][NextRefresh]_vars

\* the entries of a heap with a time before the clock
Overdue(heap) == { p \in 1..Len(heap) : heap[p].time < current_time }

\* C34: over any interleaving of run and update_component_data, the clock
\* never decreases, no event earlier than the clock is applied, and
\* update_component_data places no event before the clock
C34_ClockMonotonicAcrossRefresh ==
    [][/\ current_time' >= current_time
       /\ (Popping /\ ~IsStale(NextEvent)) => NextEvent.time >= current_time
       /\ refreshes' # refreshes =>
              Cardinality(Overdue(event_queue')) <= Cardinality(Overdue(event_queue))
      ]_vars

(***************************************************************************)
(* the caller's node-state array                                           *)
(***************************************************************************)
\* the caller stores another state at one node of the array it passed
CallerWrite(n, v) ==
    /\ pc = "idle"
    /\ caller_array[n] # v
    /\ caller_array' = [caller_array EXCEPT ![n] = v]
    /\ node_state' = IF set_node_state_grid(caller_array).same_object
                     THEN caller_array'
                     ELSE node_state
    /\ UNCHANGED <<link_state, next_update, event_queue, current_time, tables,
                   pc, run_duration, ev, applied, applied_before, supplied,
                   initial, args, attrs, observed, fields, fields_call,
                   sample, refreshes, last_call>>

\* the nodes the caller writes to: a boundary node and a core node
WrittenNodes == {4, 5}

NextOwnership ==
    \/ \E duration \in 0..MaxDuration : RunCall(duration, NoGrid)
    \/ RunIteration
    \/ RunReturn
    \/ \E n \in WrittenNodes, v \in 0..(num_node_states - 1) : CallerWrite(n, v)

SpecOwnership == Init /\ [][NextOwnership]_vars

\* C35: the engine's cell states are not shared with the caller: a run
\* leaves the array the caller passed unchanged, and a write of the caller
\* to that array leaves the engine's cell states unchanged
C35_ExclusiveOwnership ==
    [][/\ pc = "loop" => caller_array' = caller_array
       /\ (pc = "idle" /\ pc' = "idle" /\ caller_array' # caller_array) =>
              node_state' = node_state
      ]_vars

(***************************************************************************)
(* OrientedRasterCTS.setup_array_of_orientation_codes                      *)
(***************************************************************************)
\* the node spacings tried, counted in halves of a length unit: 0.5, 1.0,
\* 1.5, ...
MaxSpacing == 8

Spacings == 1..MaxSpacing

\* the links of the raster grid as (tail, head): the vertical links point
\* up, the horizontal links point right
RasterLinks ==
    { <<n, n + NumCols>> : n \in 0..(number_of_nodes - NumCols - 1) }
        \cup { <<n, n + 1>> : n \in { m \in Nodes : m % NumCols < NumCols - 1 } }

IsVertical(link) == link[1] \div NumCols # link[2] \div NumCols

\* grid.node_y, in halves of a length unit
node_y(n, spacing) == (n \div NumCols) * spacing

\* numpy astype(int) of a number of halves: the fraction is cut off, towards
\* zero
astype_int(halves) ==
    IF halves >= 0 THEN halves \div 2 ELSE 0 - ((0 - halves) \div 2)

\* the entry of link_orientation for one link
link_orientation(spacing, link) ==
    astype_int(node_y(link[2], spacing) - node_y(link[1], spacing))

\* setup_array_of_orientation_codes on a grid with the given spacing, read
\* at one link
SetupOrientationCodes(spacing, link) ==
    /\ pc = "new"
    /\ last_call' = [op |-> "setup_array_of_orientation_codes",
                     input |-> [spacing |-> spacing, link |-> link],
                     raised |-> "none",
                     value |-> link_orientation(spacing, link)]
    /\ UNCHANGED <<engine_vars, fields, fields_call, sample>>

NextOrientation ==
    \E spacing \in Spacings, link \in RasterLinks :
        SetupOrientationCodes(spacing, link)

SpecOrientation == InitFields /\ [][NextOrientation]_vars

\* C36: every link gets an orientation code in {0, 1}, below
\* number_of_orientations: 0 when it is horizontal and 1 when it is
\* vertical, whatever the node spacing
C36_OrientationCodesInRange ==
    last_call.op = "setup_array_of_orientation_codes" =>
        /\ last_call.value \in {0, 1}
        /\ last_call.value < NumOrientations
        /\ last_call.value = IF IsVertical(last_call.input.link) THEN 1 ELSE 0

\* C37: a run called without a node_state_grid when the heap is empty or the
\* clock has reached run_duration returns normally and leaves the clock,
\* the cell states, the link states, next_update and the heap unchanged
C37_IdleRunNoOp ==
    [][/\ (pc = "idle" /\ pc' = "loop") =>
              UNCHANGED <<node_state, link_state, next_update, event_queue,
                          current_time>>
       /\ (pc = "loop" /\ (Len(event_queue) = 0 \/ current_time >= run_duration)) =>
              /\ pc' = "idle"
              /\ UNCHANGED <<node_state, link_state, next_update, event_queue,
                             current_time>>
      ]_vars

\* run(0) has been called on an engine with events pending, and is about to
\* return
C37_Witness ==
    /\ pc = "loop"
    /\ run_duration = 0
    /\ Len(event_queue) > 0

(***************************************************************************)
(* landlab.io.netcdf.read._get_raster_spacing(coords)                      *)
(***************************************************************************)
\* the largest coordinate value and the longest axis of the grids tried
MaxCoord == 1

MaxAxisLen == 2

\* the two coordinate arrays of a structured grid, both of the grid's shape,
\* one for each axis
CoordinateArrays ==
    UNION { [1..2 -> [1..rows -> [1..cols -> 0..MaxCoord]]] :
            rows \in 1..MaxAxisLen, cols \in 1..MaxAxisLen }

\* numpy.diff(coord, axis=axis) of a two-dimensional array
diff(coord, axis) ==
    IF axis = 0
    THEN [i \in 1..(Len(coord) - 1) |->
             [j \in 1..Len(coord[i]) |-> coord[i + 1][j] - coord[i][j]]]
    ELSE [i \in 1..Len(coord) |->
             [j \in 1..(Len(coord[i]) - 1) |-> coord[i][j + 1] - coord[i][j]]]

\* array.flat: the entries row after row
RECURSIVE flat(_)
flat(array) ==
    IF Len(array) = 0 THEN <<>> ELSE array[1] \o flat(Tail(array))

Returned(value) == [raised |-> "none", value |-> value]

\* a call that raises returns no value
NoValue == 0 - 1 - MaxCoord

Raised(exception) == [raised |-> exception, value |-> NoValue]

\* the loop over the axes, then the comparison of the spacings of the axes
RECURSIVE RasterSpacingLoop(_, _, _)
RasterSpacingLoop(coords, axis, spacing) ==
    IF axis >= Len(coords)
    THEN IF \A k \in 1..Len(spacing) : spacing[k] = spacing[1]
         THEN Returned(spacing[1])
         ELSE Raised("NotRasterGridError")
    ELSE LET coord_spacing == flat(diff(coords[axis + 1], axis))
         IN  IF Len(coord_spacing) = 0 THEN Raised("IndexError")
             ELSE IF \A k \in 1..Len(coord_spacing) :
                         coord_spacing[k] = coord_spacing[1]
             THEN RasterSpacingLoop(coords, axis + 1,
                                    Append(spacing, coord_spacing[1]))
             ELSE Raised("NotRasterGridError")

get_raster_spacing(coords) == RasterSpacingLoop(coords, 0, <<>>)

\* one call of _get_raster_spacing
GetRasterSpacing(coords) ==
    /\ pc = "new"
    /\ last_call' = [op |-> "_get_raster_spacing", input |-> coords,
                     raised |-> get_raster_spacing(coords).raised,
                     value |-> get_raster_spacing(coords).value]
    /\ UNCHANGED <<engine_vars, fields, fields_call, sample>>

NextSpacing == \E coords \in CoordinateArrays : GetRasterSpacing(coords)

SpecSpacing == InitFields /\ [][NextSpacing]_vars

\* the differences of neighbouring entries of a coordinate array along one
\* axis (1: down the rows, 2: along the columns)
DifferencesAlong(coord, axis) ==
    IF axis = 1
    THEN { coord[i + 1][j] - coord[i][j] :
           i \in 1..(Len(coord) - 1), j \in 1..Len(coord[1]) }
    ELSE { coord[i][j + 1] - coord[i][j] :
           i \in 1..Len(coord), j \in 1..(Len(coord[1]) - 1) }

\* every coordinate array has one constant difference along its own axis,
\* the same for all axes
HasCommonSpacing(coords, d) ==
    \A axis \in 1..Len(coords) : DifferencesAlong(coords[axis], axis) = {d}

\* C38: _get_raster_spacing returns the common node spacing exactly when
\* every coordinate array has one constant difference along its own axis and
\* the axes have the same difference; in every other case it raises
\* NotRasterGridError and returns no value
C38_RasterSpacingCheck ==
    last_call.op = "_get_raster_spacing" =>
        IF \E d \in (0 - MaxCoord)..MaxCoord : HasCommonSpacing(last_call.input, d)
        THEN /\ last_call.raised = "none"
             /\ HasCommonSpacing(last_call.input, last_call.value)
        ELSE /\ last_call.raised = "NotRasterGridError"
             /\ last_call.value = NoValue
====
